---- MODULE Spec2Model ----
(***************************************************************************)
(* Model of sqlalchemy_tenant_wiper/core.py: the join-path parser, the     *)
(* tenant-filter probe, TenantWiperConfig.validate() and the two-phase     *)
(* TenantDeleter.delete().                                                 *)
(*                                                                         *)
(* Strings of the program (path strings, table and column names) are       *)
(* sequences of one-character strings, so that str.split() is computed.    *)
(***************************************************************************)
EXTENDS Integers, Sequences, FiniteSets, TLC

VARIABLES
    metadata,           \* config.base.metadata: the schema registry
    tenant_filters,     \* config.tenant_filters
    relationships,      \* config.relationships (tenant_join_paths)
    excluded_tables,    \* config.excluded_tables
    batch_size,         \* config.batch_size
    validation,         \* outcome of the last TenantWiperConfig.validate() call
    path,               \* argument of a direct _parse_join_path(path) call
    parsed,             \* what that call returned or raised
    rows,               \* what the session sees, uncommitted changes included
    committed_rows,     \* the rows as of the last commit: a rollback restores them
    foreign_keys_enforced,  \* whether the database refuses dangling references
    pks_to_delete,      \* deleter.pks_to_delete
    phase,              \* where the current delete() call is
    dry_run,            \* argument of the current delete() call
    commit,             \* argument of the current delete() call
    remaining_tables,   \* the tables the running loop has yet to visit
    pks,                \* Phase 2: keys of the current table not yet sent
    batches_left,       \* Phase 2: passes left of the current table's batch loop
    statements,         \* what the current call executed on the session
    outcome,            \* how the last delete() call ended
    calls,              \* delete() calls made so far
    rows_before,        \* the rows when the current delete() call began
    committed_before    \* the committed rows when the current call began

configVars == <<metadata, tenant_filters, relationships, excluded_tables, batch_size>>

sessionVars == <<rows, committed_rows, foreign_keys_enforced, rows_before,
                 committed_before>>

deleterVars == <<pks_to_delete, phase, dry_run, commit, remaining_tables, pks,
                 batches_left, statements, outcome, calls>>

vars == <<configVars, validation, path, parsed, sessionVars, deleterVars>>

(***************************************************************************)
(* Bounds                                                                  *)
(***************************************************************************)
MaxSegs == 5        \* most '__'-joined pieces of a parser input

(***************************************************************************)
(* Strings                                                                 *)
(***************************************************************************)
SEP == <<"_", "_">>         \* the '__' path delimiter
EQ  == <<"=">>              \* the '=' of a join condition

\* s[i:] of Python, 1-based: the suffix of s that starts at position i
Suffix(s, i) == SubSeq(s, i, Len(s))

\* s[i:i+len(sep)] == sep
OccursAt(s, sep, i) ==
    /\ i + Len(sep) - 1 <= Len(s)
    /\ SubSeq(s, i, i + Len(sep) - 1) = sep

\* str.find(sep): position of the leftmost occurrence of sep in s, 0 if none
Find(s, sep) ==
    LET hits == {i \in 1..Len(s) : OccursAt(s, sep, i)}
    IN  IF hits = {} THEN 0 ELSE CHOOSE i \in hits : \A j \in hits : i <= j

\* the piece of s before the occurrence found at i, all of s when none (i = 0)
Before(s, i) == IF i = 0 THEN s ELSE SubSeq(s, 1, i - 1)

\* str.split(sep): leftmost, non-overlapping occurrences; always >= 1 part
RECURSIVE Split(_, _)
\* the split of s whose leftmost occurrence of sep is at i
SplitAt(s, sep, i) ==
    IF i = 0 THEN <<s>>
    ELSE <<Before(s, i)>> \o Split(Suffix(s, i + Len(sep)), sep)

Split(s, sep) == SplitAt(s, sep, Find(s, sep))

\* str.split(sep, 1)[0]
SplitFirst(s, sep) == Before(s, Find(s, sep))

\* sep.join(parts)
RECURSIVE Join(_, _)
Join(parts, sep) ==
    IF Len(parts) = 0 THEN <<>>
    ELSE IF Len(parts) = 1 THEN parts[1]
    ELSE parts[1] \o sep \o Join(Tail(parts), sep)

(***************************************************************************)
(* _parse_join_path                                                        *)
(***************************************************************************)
\* len(parts) % 2 == 0
MalformedParts(parts) == Len(parts) % 2 = 0

\* zip_longest(iterator, iterator) over parts[1:]: (condition, to_table) pairs.
\* With an odd number of parts no pair is padded with None.
StepPairs(parts) ==
    [k \in 1..((Len(parts) - 1) \div 2) |-> <<parts[2 * k], parts[2 * k + 1]>>]

\* a slip: condition.split('=', 1), which lets 'a=b=c' through
UnpackKeysMaxsplit(kv) ==
    IF Len(kv) >= 2
    THEN [ok |-> TRUE, from_key |-> kv[1], to_key |-> Join(Tail(kv), EQ)]
    ELSE [ok |-> FALSE, from_key |-> <<>>, to_key |-> <<>>]

\* from_key, to_key = <list>: unpacking needs exactly two values
UnpackKeys(kv) ==
    IF Len(kv) = 2
    THEN [ok |-> TRUE, from_key |-> kv[1], to_key |-> kv[2]]
    ELSE [ok |-> FALSE, from_key |-> <<>>, to_key |-> <<>>]

\* from_key, to_key = condition.split('=')
ConditionKeys(condition) == UnpackKeys(Split(condition, EQ))

\* the (from_table, from_key, to_table, to_key) tuple appended for one pair
JoinStep(from_table_name, keys, to_table_name) ==
    [from_table |-> from_table_name, from_key |-> keys.from_key,
     to_table |-> to_table_name, to_key |-> keys.to_key]

\* a slip: from_table_name = to_table_name left out of the loop
RECURSIVE JoinStepsStuck(_, _)
JoinStepsStuck(from_table_name, pairs) ==
    IF pairs = <<>> THEN <<>>
    ELSE <<JoinStep(from_table_name, ConditionKeys(pairs[1][1]), pairs[1][2])>>
         \o JoinStepsStuck(from_table_name, Tail(pairs))

\* the loop body: one join step per pair, from_table_name advancing
RECURSIVE JoinSteps(_, _)
JoinSteps(from_table_name, pairs) ==
    IF pairs = <<>> THEN <<>>
    ELSE <<JoinStep(from_table_name, ConditionKeys(pairs[1][1]), pairs[1][2])>>
         \o JoinSteps(pairs[1][2], Tail(pairs))

\* from_table_name after the loop
FinalTable(start_table, pairs) ==
    IF pairs = <<>> THEN start_table ELSE pairs[Len(pairs)][2]

Raised(kind) == [ok |-> FALSE, error |-> kind]

\* no call made yet
NotCalled == [ok |-> FALSE, error |-> "not called"]

\* the function after parts = path_string.split('__')
ParseParts(parts) ==
    IF MalformedParts(parts) THEN Raised("MalformedPath")
    ELSE IF \E k \in 1..Len(StepPairs(parts)) :
                ~ConditionKeys(StepPairs(parts)[k][1]).ok
         THEN Raised("InvalidJoinCondition")
    ELSE [ok |-> TRUE, error |-> "",
          start_table |-> parts[1],
          final_table |-> FinalTable(parts[1], StepPairs(parts)),
          steps |-> JoinSteps(parts[1], StepPairs(parts))]

ParseJoinPath(p) == ParseParts(Split(p, SEP))

(***************************************************************************)
(* The schema registry (base.metadata) of the test suite's models.         *)
(* Payload columns (name, amount, quantity, action) are left out: no path  *)
(* or filter names them.                                                   *)
(***************************************************************************)
users          == <<"u">>
orders         == <<"o">>
products       == <<"p">>
product_orders == <<"q">>
audit_logs     == <<"a">>
nonexistent_table == <<"z">>

id         == <<"i">>
tenant_id  == <<"t">>
org_id     == <<"g">>
user_id    == <<"s">>
product_id == <<"d">>
order_id   == <<"r">>
wrong_column == <<"x">>

Table(cols, pk, fks) == [columns |-> cols, primary_key |-> pk, foreign_keys |-> fks]

ForeignKey(col, ref_table, ref_col) ==
    [column |-> col, ref_table |-> ref_table, ref_column |-> ref_col]

TestTables ==
    (users :> Table({id, tenant_id, org_id}, <<id>>, {}))
 @@ (orders :> Table({id, user_id, tenant_id}, <<id>>,
                     {ForeignKey(user_id, users, id)}))
 @@ (products :> Table({id}, <<id>>, {}))
 @@ (product_orders :> Table({product_id, order_id}, <<product_id, order_id>>,
                     {ForeignKey(product_id, products, id),
                      ForeignKey(order_id, orders, id)}))
 @@ (audit_logs :> Table({id}, <<id>>, {}))

\* metadata.tables and metadata.sorted_tables (dependency order, parents first)
TestMetadata ==
    [tables |-> TestTables,
     sorted_tables |-> <<audit_logs, products, users, orders, product_orders>>]

EmptyMetadata == [tables |-> <<>>, sorted_tables |-> <<>>]

\* the models for tables with several relationship paths
companies   == <<"c">>
departments == <<"e">>
employees   == <<"m">>

company_id    == <<"y">>
department_id == <<"n">>

MultiPathTables ==
    (companies :> Table({id, tenant_id}, <<id>>, {}))
 @@ (departments :> Table({id, tenant_id}, <<id>>, {}))
 @@ (employees :> Table({id, company_id, department_id}, <<id>>,
                        {ForeignKey(company_id, companies, id),
                         ForeignKey(department_id, departments, id)}))

\* the whole registry of test_models; sorted_tables lists the tables without
\* a foreign key first, then those whose parents are all listed
FixtureMetadata ==
    [tables |-> TestTables @@ MultiPathTables,
     sorted_tables |-> <<audit_logs, companies, departments, products, users,
                         employees, orders, product_orders>>]

TableNames(md) == DOMAIN md.tables

\* the elements of a sequence
Range(seq) == {seq[k] : k \in 1..Len(seq)}

(***************************************************************************)
(* Tenant filters: callables Table -> expression.  A filter is described   *)
(* by what invoking it does:                                               *)
(*   kind "ok"     reads table.c.<col> for each col of cols and compares   *)
(*                 it with val;                                            *)
(*   kind "syntax" raises whatever it is invoked on, the column-recording  *)
(*                 shadow table included;                                  *)
(*   kind "apply"  reads its columns and then raises on a real column      *)
(*                 (table.c.tenant_id.invalid_method()); the shadow        *)
(*                 table's Mock accepts the call.                          *)
(* exc is the class of the exception a raising filter raises on a real     *)
(* table.                                                                  *)
(***************************************************************************)
TargetTenant == 1
OtherTenant  == 2

TenantFilter(kind, cols, exc, val) ==
    [kind |-> kind, cols |-> cols, exc |-> exc, val |-> val]

ByTenantId   == TenantFilter("ok", {tenant_id}, "", TargetTenant)
ByOrgId      == TenantFilter("ok", {org_id}, "", TargetTenant)
SyntaxError  == TenantFilter("syntax", {}, "Exception", 0)
InvalidMethod == TenantFilter("apply", {tenant_id}, "AttributeError", 0)
\* table.c.tenant_id == <a value the column type cannot bind>
WrongExpressionCompile ==
    TenantFilter("bind", {tenant_id}, "StatementError", TargetTenant)

(***************************************************************************)
(* _can_apply_tenant_filter                                                *)
(***************************************************************************)
ProbeRaised(kind) ==
    [raised |-> TRUE, error |-> kind, can_apply |-> FALSE, accessed |-> {}]

ProbeReturned(can_apply, accessed) ==
    [raised |-> FALSE, error |-> "", can_apply |-> can_apply, accessed |-> accessed]

\* a slip: the shadow invocation's exception swallowed as "not applicable"
CanApplyTenantFilterSwallow(table, tenant_filter) ==
    IF tenant_filter.kind = "syntax"
    THEN ProbeReturned(FALSE, {})
    ELSE IF \E col \in tenant_filter.cols : col \notin table.columns
    THEN ProbeReturned(FALSE, tenant_filter.cols)
    ELSE IF tenant_filter.kind = "apply"
    THEN ProbeRaised("FilterApplicationError")
    ELSE ProbeReturned(TRUE, tenant_filter.cols)

CanApplyTenantFilter(table, tenant_filter) ==
    IF tenant_filter.kind = "syntax"
    THEN ProbeRaised("FilterSyntaxError")
    ELSE IF \E col \in tenant_filter.cols : col \notin table.columns
    THEN ProbeReturned(FALSE, tenant_filter.cols)
    ELSE IF tenant_filter.kind = "apply"
    THEN ProbeRaised("FilterApplicationError")
    ELSE ProbeReturned(TRUE, tenant_filter.cols)

\* what one loop over the filter list did on one table: the outcome of the
\* last probe and how many filters were probed (invoked on the shadow table)
Probing(probe, probed) ==
    [raised |-> probe.raised, error |-> probe.error, can_apply |-> probe.can_apply,
     probed |-> probed]

\* TenantWiperConfig._has_tenant_column, and the same loop in
\* _validate_relationship_path: the first applicable filter answers, a
\* raising probe is re-raised
RECURSIVE HasTenantColumn(_, _, _)
HasTenantColumn(table, filters, probed) ==
    IF filters = <<>> THEN Probing(ProbeReturned(FALSE, {}), probed)
    ELSE LET probe == CanApplyTenantFilter(table, Head(filters))
         IN  IF probe.raised \/ probe.can_apply THEN Probing(probe, probed + 1)
             ELSE HasTenantColumn(table, Tail(filters), probed + 1)

\* a record of the probes made on one table, kept to state what validate()
\* did: where is "terminal" (a path's final table) or "sweep" (coverage)
ProbeEntry(where, table_name, probing) ==
    [where |-> where, table |-> table_name, probed |-> probing.probed]

(***************************************************************************)
(* TenantWiperConfig._parse_relationships: the ordered dict                *)
(* source table -> paths, as a sequence of entries in insertion order      *)
(***************************************************************************)
\* relationship_dict[source_table].append(relationship_str), the entry being
\* created first when the key is new
AddRelationship(dict, relationship_str, source_table) ==
    IF \E k \in 1..Len(dict) : dict[k].source_table = source_table
    THEN [k \in 1..Len(dict) |->
            IF dict[k].source_table = source_table
            THEN [dict[k] EXCEPT !.paths = Append(@, relationship_str)]
            ELSE dict[k]]
    ELSE Append(dict, [source_table |-> source_table,
                       paths |-> <<relationship_str>>])

RECURSIVE ParseRelationships(_)
ParseRelationships(paths) ==
    IF paths = <<>> THEN <<>>
    ELSE AddRelationship(ParseRelationships(SubSeq(paths, 1, Len(paths) - 1)),
                         paths[Len(paths)],
                         SplitFirst(paths[Len(paths)], SEP))

\* table_name in self._relationship_dict
RelationshipKeys(dict) == {dict[k].source_table : k \in 1..Len(dict)}

(***************************************************************************)
(* _validate_relationship_path                                             *)
(***************************************************************************)
PathError(kind, name, table) == [kind |-> kind, name |-> name, table |-> table]

\* the two table checks of one step, in the order [from_table, to_table]
StepTableErrors(step, md) ==
    (IF step.from_table \notin TableNames(md)
     THEN <<PathError("UnknownTable", step.from_table, <<>>)>> ELSE <<>>)
 \o (IF step.to_table \notin TableNames(md)
     THEN <<PathError("UnknownTable", step.to_table, <<>>)>> ELSE <<>>)

\* _get_all_columns_for_table(table_name, metadata, None): without a Base no
\* model class is found and the metadata columns answer
GetAllColumnsForTable(table_name, md) ==
    IF table_name \in TableNames(md) THEN md.tables[table_name].columns ELSE {}

\* the two column checks of one step
StepColumnErrors(step, md) ==
    (IF step.from_key \notin GetAllColumnsForTable(step.from_table, md)
     THEN <<PathError("UnknownColumn", step.from_key, step.from_table)>> ELSE <<>>)
 \o (IF step.to_key \notin GetAllColumnsForTable(step.to_table, md)
     THEN <<PathError("UnknownColumn", step.to_key, step.to_table)>> ELSE <<>>)

\* the loop over the steps; `if errors: continue` looks at every error
\* collected so far, those of earlier steps included
RECURSIVE StepErrors(_, _, _)
StepErrors(steps, md, errors) ==
    IF steps = <<>> THEN errors
    ELSE IF errors \o StepTableErrors(Head(steps), md) # <<>>
    THEN StepErrors(Tail(steps), md, errors \o StepTableErrors(Head(steps), md))
    ELSE StepErrors(Tail(steps), md, StepColumnErrors(Head(steps), md))

PathReturned(errors, probes) ==
    [raised |-> FALSE, exc |-> "", error |-> "", errors |-> errors,
     probes |-> probes]

PathRaised(exc, kind, probes) ==
    [raised |-> TRUE, exc |-> exc, error |-> kind, errors |-> <<>>,
     probes |-> probes]

\* what the probes of the final table lead to: a raising probe propagates,
\* no applicable filter is the path's one error
FinalTableOutcome(final_table_name, probing, probes) ==
    IF probing.raised THEN PathRaised("ValueError", probing.error, probes)
    ELSE IF probing.can_apply THEN PathReturned(<<>>, probes)
    ELSE PathReturned(<<PathError("TerminalNotFilterable",
                                  final_table_name, <<>>)>>, probes)

\* the loop over the filters on the final table, with the record of it
FinalTableProbes(final_table_name, probing) ==
    FinalTableOutcome(final_table_name, probing,
                      <<ProbeEntry("terminal", final_table_name, probing)>>)

\* the check of the final table: entered only with no error so far and a
\* non-empty filter list; metadata_tables[final_table_name] is a plain lookup
FinalTableCheck(final_table_name, md, filters) ==
    IF final_table_name \notin TableNames(md)
    THEN PathRaised("KeyError", "KeyError", <<>>)
    ELSE FinalTableProbes(final_table_name,
                          HasTenantColumn(md.tables[final_table_name], filters, 0))

\* the function after the step loop has collected errors
CheckFinalTable(errors, final_table_name, md, filters) ==
    IF errors = <<>> /\ filters # <<>>
    THEN FinalTableCheck(final_table_name, md, filters)
    ELSE PathReturned(errors, <<>>)

\* the function after _parse_join_path: its ValueError is the path's one error
ValidateParsedPath(parsed_path, md, filters) ==
    IF ~parsed_path.ok
    THEN PathReturned(<<PathError(parsed_path.error, <<>>, <<>>)>>, <<>>)
    ELSE CheckFinalTable(StepErrors(parsed_path.steps, md, <<>>),
                         parsed_path.final_table, md, filters)

ValidateRelationshipPath(relationship_path, md, filters) ==
    IF relationship_path = <<>>
    THEN PathReturned(<<PathError("EmptyPath", <<>>, <<>>)>>, <<>>)
    ELSE ValidateParsedPath(ParseJoinPath(relationship_path), md, filters)

(***************************************************************************)
(* TenantWiperConfig.validate                                              *)
(***************************************************************************)
ValidationPassed(probes) ==
    [state |-> "ok", exc |-> "", kind |-> "", errors |-> <<>>, tables |-> <<>>,
     probes |-> probes]

ValidationRaised(exc, kind, errors, tables, probes) ==
    [state |-> "raised", exc |-> exc, kind |-> kind, errors |-> errors,
     tables |-> tables, probes |-> probes]

NotValidated ==
    [state |-> "none", exc |-> "", kind |-> "", errors |-> <<>>, tables |-> <<>>,
     probes |-> <<>>]

\* an entry of relationship_errors: the message names the source table and,
\* for a path error, the path and what is wrong with it
RelationshipError(kind, source_table, relationship_path, name, table) ==
    [kind |-> kind, source_table |-> source_table, path |-> relationship_path,
     name |-> name, table |-> table]

\* a slip: relationship_errors = [...] in place of relationship_errors.append
CollectConflictOnly(errors, source_table) ==
    <<RelationshipError("ExclusionConflict", source_table, <<>>, <<>>, <<>>)>>

\* relationship_errors.append("Configuration Error: Table ... is listed in both
\* excluded_tables and relationships.")
CollectConflict(errors, source_table) ==
    Append(errors,
           RelationshipError("ExclusionConflict", source_table, <<>>, <<>>, <<>>))

\* relationship_errors.extend(the path's errors, each prefixed)
CollectPathErrors(errors, source_table, relationship_path, path_errors) ==
    errors \o [k \in 1..Len(path_errors) |->
                 RelationshipError(path_errors[k].kind, source_table,
                                   relationship_path, path_errors[k].name,
                                   path_errors[k].table)]

\* one pass of the inner loop's body: so_far is relationship_errors and the
\* probes made before the path, result what validating the path gave
AfterPath(so_far, source_table, relationship_path, result) ==
    IF result.raised
    THEN PathRaised(result.exc, result.error, so_far.probes \o result.probes)
    ELSE PathReturned(CollectPathErrors(so_far.errors, source_table,
                                        relationship_path, result.errors),
                      so_far.probes \o result.probes)

\* the inner loop: all paths of one source table; a raise leaves the loop
RECURSIVE ValidatePathsOf(_, _, _, _, _)
ValidatePathsOf(source_table, relationship_paths, md, filters, so_far) ==
    IF relationship_paths = <<>> \/ so_far.raised THEN so_far
    ELSE ValidatePathsOf(source_table, Tail(relationship_paths), md, filters,
             AfterPath(so_far, source_table, Head(relationship_paths),
                       ValidateRelationshipPath(Head(relationship_paths), md,
                                                filters)))

\* one pass of the outer loop's body
ValidateSource(source_table, relationship_paths, excluded, md, filters, so_far) ==
    IF source_table \in excluded
    THEN PathReturned(CollectConflict(so_far.errors, source_table), so_far.probes)
    ELSE ValidatePathsOf(source_table, relationship_paths, md, filters, so_far)

\* the outer loop over _relationship_dict.items()
RECURSIVE ValidateRelationships(_, _, _, _, _)
ValidateRelationships(dict, excluded, md, filters, so_far) ==
    IF dict = <<>> \/ so_far.raised THEN so_far
    ELSE ValidateRelationships(Tail(dict), excluded, md, filters,
             ValidateSource(Head(dict).source_table, Head(dict).paths, excluded,
                            md, filters, so_far))

SweepReturned(uncovered, probes) ==
    [raised |-> FALSE, error |-> "", uncovered |-> uncovered, probes |-> probes]

SweepRaised(kind, probes) ==
    [raised |-> TRUE, error |-> kind, uncovered |-> <<>>, probes |-> probes]

\* a slip: `in` for `not in`
LacksCoverageInverted(has_tenant_filter, table_name, dict) ==
    ~has_tenant_filter /\ table_name \in RelationshipKeys(dict)

\* not has_tenant_filter and table_name not in self._relationship_dict
LacksCoverage(has_tenant_filter, table_name, dict) ==
    ~has_tenant_filter /\ table_name \notin RelationshipKeys(dict)

\* a slip: tables_with_no_coverage = [table_name]
CollectUncoveredOnly(uncovered, table_name) == <<table_name>>

\* tables_with_no_coverage.append(table_name)
CollectUncovered(uncovered, table_name) == Append(uncovered, table_name)

\* the sweep's body on a table that is not excluded, after
\* has_tenant_filter = self._has_tenant_column(table)
SweepTable(so_far, table_name, dict, probing, logged) ==
    IF probing.raised THEN SweepRaised(probing.error, logged)
    ELSE IF LacksCoverage(probing.can_apply, table_name, dict)
    THEN SweepReturned(CollectUncovered(so_far.uncovered, table_name), logged)
    ELSE SweepReturned(so_far.uncovered, logged)

\* the same, with the record of the probes made on the table
SweepProbes(so_far, table_name, dict, probing) ==
    SweepTable(so_far, table_name, dict, probing,
               Append(so_far.probes, ProbeEntry("sweep", table_name, probing)))

\* the coverage sweep over metadata.sorted_tables
RECURSIVE CoverageSweep(_, _, _, _, _, _)
CoverageSweep(sorted, md, excluded, filters, dict, so_far) ==
    IF sorted = <<>> \/ so_far.raised THEN so_far
    ELSE CoverageSweep(Tail(sorted), md, excluded, filters, dict,
             IF Head(sorted) \in excluded THEN so_far
             ELSE SweepProbes(so_far, Head(sorted), dict,
                      HasTenantColumn(md.tables[Head(sorted)], filters, 0)))

\* the end of validate(): what the coverage sweep leads to
AfterSweep(sweep) ==
    IF sweep.raised
    THEN ValidationRaised("ValueError", sweep.error, <<>>, <<>>, sweep.probes)
    ELSE IF sweep.uncovered # <<>>
    THEN ValidationRaised("ValueError", "UncoveredTables", <<>>, sweep.uncovered,
                          sweep.probes)
    ELSE ValidationPassed(sweep.probes)

\* validate() after the loop over the relationships
AfterRelationships(md, filters, excluded, dict, rel) ==
    IF rel.raised THEN ValidationRaised(rel.exc, rel.error, <<>>, <<>>, rel.probes)
    ELSE IF rel.errors # <<>>
    THEN ValidationRaised("ValueError", "RelationshipErrors", rel.errors, <<>>,
                          rel.probes)
    ELSE AfterSweep(CoverageSweep(md.sorted_tables, md, excluded, filters, dict,
                                  SweepReturned(<<>>, rel.probes)))

\* validate() on the relationship dict built at construction
ValidateDict(md, filters, excluded, dict) ==
    AfterRelationships(md, filters, excluded, dict,
        ValidateRelationships(dict, excluded, md, filters, PathReturned(<<>>, <<>>)))

ValidateConfig(md, filters, paths, excluded) ==
    ValidateDict(md, filters, excluded, ParseRelationships(paths))

(***************************************************************************)
(* The rows a session sees: table name -> set of rows, a row being a       *)
(* function column -> value.  Payload columns are left out.                *)
(***************************************************************************)
User(i, tenant) == (id :> i) @@ (tenant_id :> tenant) @@ (org_id :> tenant)

Order(i, user, tenant) == (id :> i) @@ (user_id :> user) @@ (tenant_id :> tenant)

Product(i) == (id :> i)

ProductOrder(product, order) == (product_id :> product) @@ (order_id :> order)

AuditLog(i) == (id :> i)

\* the rows added by the test_session fixture
SessionData ==
    (users :> {User(1, TargetTenant), User(2, TargetTenant), User(3, OtherTenant)})
 @@ (orders :> {Order(1, 1, TargetTenant), Order(2, 2, TargetTenant),
                Order(3, 3, OtherTenant)})
 @@ (products :> {Product(1), Product(2), Product(3)})
 @@ (product_orders :> {ProductOrder(1, 1), ProductOrder(2, 2), ProductOrder(3, 3)})
 @@ (audit_logs :> {AuditLog(1), AuditLog(2)})

\* the same rows, but the other tenant's order was placed by user 1 of the
\* target tenant: a reference that crosses tenants
CrossTenantData ==
    [SessionData EXCEPT ![orders] = {Order(1, 1, TargetTenant),
                                     Order(2, 2, TargetTenant),
                                     Order(3, 1, OtherTenant)}]

Company(i, tenant) == (id :> i) @@ (tenant_id :> tenant)

Department(i, tenant) == (id :> i) @@ (tenant_id :> tenant)

Employee(i, company, department) ==
    (id :> i) @@ (company_id :> company) @@ (department_id :> department)

\* the fixture's rows for the multiple-path tests: employee 1 reaches the
\* target tenant by both paths, employee 2 by none, employee 3 by its company
MultiPathData ==
    (companies :> {Company(1, TargetTenant), Company(2, OtherTenant)})
 @@ (departments :> {Department(1, TargetTenant), Department(2, OtherTenant)})
 @@ (employees :> {Employee(1, 1, 1), Employee(2, 2, 2), Employee(3, 1, 2)})

\* every user, order and product order belongs to the target tenant
OneTenantData ==
    [SessionData EXCEPT ![users] = {User(1, TargetTenant), User(2, TargetTenant),
                                    User(3, TargetTenant)},
                        ![orders] = {Order(1, 1, TargetTenant),
                                     Order(2, 2, TargetTenant),
                                     Order(3, 3, TargetTenant)}]

\* a user whose organisation is not its tenant's
UserOf(i, tenant, org) == (id :> i) @@ (tenant_id :> tenant) @@ (org_id :> org)

\* the fixture's rows, but user 2 moved to another tenant while it stayed in
\* the target organisation
MixedOrgData ==
    [SessionData EXCEPT ![users] = {User(1, TargetTenant),
                                    UserOf(2, OtherTenant, TargetTenant),
                                    User(3, OtherTenant)}]

\* tuple(row) of the primary-key columns (a scalar when there is one column)
PrimaryKey(table, row) == [k \in 1..Len(table.primary_key) |-> row[table.primary_key[k]]]

\* a slip: the delete statement lost its WHERE clause
RowsWithKeysAll(table, table_rows, batch) == table_rows

\* the rows of a table that a DELETE ... WHERE pk IN (batch) removes
RowsWithKeys(table, table_rows, batch) ==
    {row \in table_rows : PrimaryKey(table, row) \in batch}

\* an enforced foreign key refuses the delete of `gone` from table_name when
\* a row that stays still references one of them
ReferencedByRemaining(md, data, table_name, gone) ==
    \E t \in TableNames(md) : \E fk \in md.tables[t].foreign_keys :
        /\ fk.ref_table = table_name
        /\ \E row \in (IF t = table_name THEN data[t] \ gone ELSE data[t]) :
               \E parent \in gone : row[fk.column] = parent[fk.ref_column]

(***************************************************************************)
(* TenantDeleter._build_pk_collection_query                                *)
(***************************************************************************)
\* tenant_filter(table) on a real table: table.c.<col> raises AttributeError
\* for a column the table lacks, a filter may raise by itself
InvokeFilter(table, tenant_filter) ==
    IF tenant_filter.kind = "syntax" THEN [raised |-> TRUE, exc |-> tenant_filter.exc]
    ELSE IF ~(tenant_filter.cols \subseteq table.columns)
    THEN [raised |-> TRUE, exc |-> "AttributeError"]
    ELSE IF tenant_filter.kind = "apply"
    THEN [raised |-> TRUE, exc |-> tenant_filter.exc]
    ELSE [raised |-> FALSE, exc |-> ""]

\* except (AttributeError, KeyError): continue
FilterDoesNotApply(exc) == exc \in {"AttributeError", "KeyError"}

NoFilters == [raised |-> FALSE, exc |-> "", filters |-> <<>>]

\* one pass of the loop over the tenant filters: append, skip or propagate
AddFilter(so_far, tenant_filter, invoked) ==
    IF ~invoked.raised THEN [so_far EXCEPT !.filters = Append(@, tenant_filter)]
    ELSE IF FilterDoesNotApply(invoked.exc) THEN so_far
    ELSE [raised |-> TRUE, exc |-> invoked.exc, filters |-> <<>>]

\* applicable_filters / final_applicable_filters
RECURSIVE ApplicableFilters(_, _, _)
ApplicableFilters(table, filters, so_far) ==
    IF filters = <<>> \/ so_far.raised THEN so_far
    ELSE ApplicableFilters(table, Tail(filters),
             AddFilter(so_far, Head(filters), InvokeFilter(table, Head(filters))))

NoQueries == [raised |-> FALSE, exc |-> "", queries |-> <<>>]

\* self.metadata.tables[...] and from_tbl.c[...] of every step are plain lookups
StepsResolve(steps, md) ==
    \A k \in 1..Len(steps) :
        /\ steps[k].from_table \in TableNames(md)
        /\ steps[k].to_table \in TableNames(md)
        /\ steps[k].from_key \in md.tables[steps[k].from_table].columns
        /\ steps[k].to_key \in md.tables[steps[k].to_table].columns

\* the end of the loop body: a path query if a filter applies to the final table
WithFinalFilters(so_far, parsed_path, final) ==
    IF final.raised THEN [raised |-> TRUE, exc |-> final.exc, queries |-> <<>>]
    ELSE IF final.filters = <<>> THEN so_far
    ELSE [so_far EXCEPT !.queries = Append(@, [steps |-> parsed_path.steps,
                                               filters |-> final.filters])]

\* the loop body after _parse_join_path: a path that does not parse is skipped
PathQuery(so_far, parsed_path, md, filters) ==
    IF ~parsed_path.ok THEN so_far
    ELSE IF ~StepsResolve(parsed_path.steps, md)
            \/ parsed_path.final_table \notin TableNames(md)
    THEN [raised |-> TRUE, exc |-> "KeyError", queries |-> <<>>]
    ELSE WithFinalFilters(so_far, parsed_path,
             ApplicableFilters(md.tables[parsed_path.final_table], filters, NoFilters))

\* path_queries
RECURSIVE PathQueries(_, _, _, _)
PathQueries(path_strings, md, filters, so_far) ==
    IF path_strings = <<>> \/ so_far.raised THEN so_far
    ELSE PathQueries(Tail(path_strings), md, filters,
             PathQuery(so_far, ParseJoinPath(Head(path_strings)), md, filters))

\* self.config._relationship_dict[table.name]
PathStrings(dict, table_name) ==
    dict[CHOOSE k \in 1..Len(dict) : dict[k].source_table = table_name].paths

QueryRaised(exc) == [kind |-> "raised", exc |-> exc, filters |-> <<>>, queries |-> <<>>]

QueryNone == [kind |-> "none", exc |-> "", filters |-> <<>>, queries |-> <<>>]

\* a slip: only applicable_filters[0] reaches the WHERE clause
DirectQueryFirstFilter(filters) ==
    [kind |-> "direct", exc |-> "", filters |-> <<Head(filters)>>, queries |-> <<>>]

\* query.where(or_(*applicable_filters))
DirectQuery(filters) ==
    [kind |-> "direct", exc |-> "", filters |-> filters, queries |-> <<>>]

\* a slip: only path_queries[-1] is returned, the other paths are dropped
UnionQueryLastOnly(path_queries) ==
    IF path_queries.raised THEN QueryRaised(path_queries.exc)
    ELSE IF path_queries.queries = <<>> THEN QueryNone
    ELSE [kind |-> "paths", exc |-> "", filters |-> <<>>,
          queries |-> <<path_queries.queries[Len(path_queries.queries)]>>]

\* path_queries[0].union(*path_queries[1:]), None without a path query
UnionQuery(path_queries) ==
    IF path_queries.raised THEN QueryRaised(path_queries.exc)
    ELSE IF path_queries.queries = <<>> THEN QueryNone
    ELSE [kind |-> "paths", exc |-> "", filters |-> <<>>,
          queries |-> path_queries.queries]

\* Case 2: reached only when no tenant filter applies to the table itself
RelationshipQuery(table_name, md, filters, dict) ==
    IF table_name \in RelationshipKeys(dict)
    THEN UnionQuery(PathQueries(PathStrings(dict, table_name), md, filters, NoQueries))
    ELSE QueryNone

\* a slip: the declared paths of a table are used before its direct filters
RelationshipOrDirectQuery(applicable, table_name, md, filters, dict) ==
    IF applicable.raised THEN QueryRaised(applicable.exc)
    ELSE IF table_name \in RelationshipKeys(dict)
    THEN RelationshipQuery(table_name, md, filters, dict)
    ELSE IF applicable.filters # <<>> THEN DirectQuery(applicable.filters)
    ELSE QueryNone

\* Case 1 when a filter applies; a filter's own exception propagates
DirectOrRelationshipQuery(applicable, table_name, md, filters, dict) ==
    IF applicable.raised THEN QueryRaised(applicable.exc)
    ELSE IF applicable.filters # <<>> THEN DirectQuery(applicable.filters)
    ELSE RelationshipQuery(table_name, md, filters, dict)

BuildPkCollectionQuery(table_name, md, filters, dict) ==
    IF md.tables[table_name].primary_key = <<>> THEN QueryRaised("ValueError")
    ELSE DirectOrRelationshipQuery(
             ApplicableFilters(md.tables[table_name], filters, NoFilters),
             table_name, md, filters, dict)

(***************************************************************************)
(* session.execute(pk_query)                                               *)
(***************************************************************************)
\* table.c.<col> == value, for every column the filter compares
Matches(row, tenant_filter) ==
    \A col \in tenant_filter.cols : row[col] = tenant_filter.val

MatchesAny(row, filters) == \E k \in 1..Len(filters) : Matches(row, filters[k])

\* a filter whose value cannot be bound fails the statement at execution
BindFails(filters) == \E k \in 1..Len(filters) : filters[k].kind = "bind"

\* row joins through the steps to a row of the final table that matches
RECURSIVE Reaches(_, _, _, _)
Reaches(row, steps, data, filters) ==
    IF steps = <<>> THEN MatchesAny(row, filters)
    ELSE \E next \in data[Head(steps).to_table] :
            /\ row[Head(steps).from_key] = next[Head(steps).to_key]
            /\ Reaches(next, Tail(steps), data, filters)

Selected(keys) == [raised |-> FALSE, exc |-> "", kind |-> "", pks |-> keys]

CollectRaised(exc, kind) == [raised |-> TRUE, exc |-> exc, kind |-> kind, pks |-> {}]

ExecuteDirect(query, table, table_rows) ==
    IF BindFails(query.filters) THEN CollectRaised("StatementError", "QueryExecution")
    ELSE Selected({PrimaryKey(table, row) :
                     row \in {r \in table_rows : MatchesAny(r, query.filters)}})

\* a slip: the joined selects lost their WHERE clause and join conditions
ExecuteUnionAll(query, table, table_rows, data) ==
    Selected({PrimaryKey(table, row) : row \in table_rows})

ExecuteUnion(query, table, table_rows, data) ==
    IF \E k \in 1..Len(query.queries) : BindFails(query.queries[k].filters)
    THEN CollectRaised("StatementError", "QueryExecution")
    ELSE Selected({PrimaryKey(table, row) :
                     row \in {r \in table_rows :
                                \E k \in 1..Len(query.queries) :
                                    Reaches(r, query.queries[k].steps, data,
                                            query.queries[k].filters)}})

\* the body of the Phase 1 loop after the builder: None is fatal, the
\* builder's and the statement's exceptions propagate; `fails` says that
\* session.execute itself raises (a lost connection, a patched session)
ExecutePkQuery(query, table_name, md, data, fails) ==
    CASE query.kind = "raised" -> CollectRaised(query.exc, "QueryBuild")
      [] query.kind = "none" -> CollectRaised("ValueError", "NoCollectionQuery")
      [] fails /\ query.kind \in {"direct", "paths"} ->
            CollectRaised("Exception", "SessionFailure")
      [] query.kind = "direct" ->
            ExecuteDirect(query, md.tables[table_name], data[table_name])
      [] query.kind = "paths" ->
            ExecuteUnion(query, md.tables[table_name], data[table_name], data)

\* self.pks_to_delete[table.name].update(pks) on the defaultdict, or = set()
RecordPks(collected, table_name, keys) ==
    IF keys # {}
    THEN (IF table_name \in DOMAIN collected
          THEN [collected EXCEPT ![table_name] = @ \cup keys]
          ELSE collected @@ (table_name :> keys))
    ELSE (IF table_name \in DOMAIN collected
          THEN [collected EXCEPT ![table_name] = {}]
          ELSE collected @@ (table_name :> {}))

(***************************************************************************)
(* TenantDeleter._execute_deletions                                        *)
(***************************************************************************)
DefaultBatchSize == 500

\* batch_size is Optional[int]: <<>> is None, <<n>> the integer n.
\* self.config.batch_size or 500
BatchSizeOrDefault(size) ==
    IF size = <<>> THEN DefaultBatchSize
    ELSE IF size[1] = 0 THEN DefaultBatchSize ELSE size[1]

\* a slip: the last, shorter batch is forgotten
RangeLenFloor(n, step) == IF step > 0 THEN n \div step ELSE 0

\* len(range(0, n, step)) for n >= 0 and step # 0
RangeLen(n, step) == IF step > 0 THEN (n + step - 1) \div step ELSE 0

\* list(reversed(self.metadata.sorted_tables))
RECURSIVE Reversed(_)
Reversed(seq) == IF seq = <<>> THEN <<>> ELSE Append(Reversed(Tail(seq)), Head(seq))

\* a slip: reversed() left out
BuildDeletionOrderForward(md) == md.sorted_tables

BuildDeletionOrder(md) == Reversed(md.sorted_tables)

(***************************************************************************)
(* Configurations: TenantWiperConfig(base, tenant_filters,                 *)
(* tenant_join_paths, excluded_tables, validate_on_init=False)             *)
(***************************************************************************)
MaxFilters == 2     \* most tenant filters of a configuration
MaxPaths == 2       \* most join paths of a configuration

\* table__from_key=to_key__table
Path1(t1, k1, k2, t2) == Join(<<t1, k1 \o EQ \o k2, t2>>, SEP)

Path2(t1, k1, k2, t2, k3, k4, t3) ==
    Join(<<t1, k1 \o EQ \o k2, t2, k3 \o EQ \o k4, t3>>, SEP)

FilterPool == {ByTenantId, SyntaxError, InvalidMethod}

PathPool ==
    { Path1(product_orders, order_id, id, orders),
      Path2(products, id, product_id, product_orders, order_id, id, orders),
      Path1(product_orders, product_id, id, products),
      orders,
      nonexistent_table,
      Path1(products, id, product_id, nonexistent_table),
      Path1(audit_logs, id, wrong_column, users),
      Path2(products, wrong_column, product_id, product_orders,
            wrong_column, id, orders) }

\* the lists without repetition of at most n elements of pool
ListsOf(pool, n) ==
    UNION {{l \in [1..k -> pool] : \A a, b \in 1..k : a # b => l[a] # l[b]}
           : k \in 0..n}

(***************************************************************************)
(* A TenantDeleter and its session                                         *)
(***************************************************************************)
MaxCalls == 2       \* most delete() calls made on one TenantDeleter

\* defaultdict(set) with no key yet
EmptyDict == [t \in {} |-> {}]

\* what a delete() call handed to its caller and to stdout: value is <<>>
\* for None, printed holds the pretty-printed report if there was one, table
\* is the table whose query or statement raised
NoOutcome == [state |-> "none", exc |-> "", kind |-> "", value |-> <<>>,
              printed |-> <<>>, table |-> <<>>]

\* every return of delete() is a bare `return` or the end of the function
Ended(state, exc, kind) ==
    [state |-> state, exc |-> exc, kind |-> kind, value |-> <<>>,
     printed |-> <<>>, table |-> <<>>]

\* report = {table: f'{len(pks)} rows' for table, pks in pks_to_delete.items()}
DryRunReport(collected) ==
    [t \in DOMAIN collected |-> Cardinality(collected[t])]

\* pprint.pprint(report), unless pks_to_delete is empty
Printed(collected) ==
    IF DOMAIN collected = {} THEN <<>> ELSE <<DryRunReport(collected)>>

\* an entry of the record of what was executed on the session
Statement(op, table_name, keys) == [op |-> op, table |-> table_name, keys |-> keys]

SessionCall(op) == Statement(op, <<>>, {})

\* TenantDeleter.__init__: nothing collected, no call made
FreshDeleter ==
    /\ pks_to_delete = EmptyDict
    /\ phase = "Idle"
    /\ dry_run = FALSE
    /\ commit = FALSE
    /\ remaining_tables = <<>>
    /\ pks = {}
    /\ batches_left = 0
    /\ statements = <<>>
    /\ outcome = NoOutcome
    /\ calls = 0

\* a session on the fixture's rows, all committed
FixtureSession ==
    /\ rows = SessionData
    /\ committed_rows = SessionData
    /\ rows_before = SessionData
    /\ committed_before = SessionData
    /\ foreign_keys_enforced = FALSE

InitConfig ==
    /\ metadata = TestMetadata
    /\ tenant_filters \in ListsOf(FilterPool, MaxFilters)
    /\ relationships \in ListsOf(PathPool, MaxPaths)
    /\ excluded_tables \in SUBSET TableNames(TestMetadata)
    /\ batch_size = <<DefaultBatchSize>>
    /\ validation = NotValidated
    /\ path = <<>>
    /\ parsed = NotCalled
    /\ FixtureSession
    /\ FreshDeleter

\* config.validate()
Validate ==
    /\ validation.state = "none"
    /\ validation' = ValidateConfig(metadata, tenant_filters, relationships,
                                    excluded_tables)
    /\ UNCHANGED <<configVars, path, parsed, sessionVars, deleterVars>>

SpecValidate == InitConfig /\ [][Validate]_vars

(***************************************************************************)
(* Direct calls of the parser on bounded inputs                            *)
(***************************************************************************)
SegPool == { <<>>, <<"a">>, <<"b", "_">>, <<"k", "=", "j">>,
             <<"j", "=", "k", "=", "j">>, <<"=">> }

\* the '__'-joins of at most MaxSegs segments
PathInputs ==
    {Join(segs, SEP) : segs \in UNION {[1..n -> SegPool] : n \in 1..MaxSegs}}

NoConfig ==
    /\ metadata = EmptyMetadata
    /\ tenant_filters = <<>>
    /\ relationships = <<>>
    /\ excluded_tables = {}
    /\ batch_size = <<DefaultBatchSize>>
    /\ validation = NotValidated
    /\ FixtureSession
    /\ FreshDeleter

InitParse ==
    /\ NoConfig
    /\ path \in PathInputs
    /\ parsed = NotCalled

CallParseJoinPath ==
    /\ parsed = NotCalled
    /\ parsed' = ParseJoinPath(path)
    /\ UNCHANGED <<configVars, validation, path, sessionVars, deleterVars>>

SpecParse == InitParse /\ [][CallParseJoinPath]_vars

(***************************************************************************)
(* TenantDeleter.delete(session, dry_run, commit), step by step            *)
(***************************************************************************)
\* a slip: Phase 1 left out, delete() starts with _execute_deletions()
DeleteBeginNoCollect(dry, com) ==
    /\ phase \in {"Idle", "DryRunReported", "Committed", "Flushed", "RolledBack"}
    /\ validation.state # "none"
    /\ calls < MaxCalls
    /\ phase' = "Deleting"
    /\ dry_run' = dry
    /\ commit' = com
    /\ remaining_tables' = BuildDeletionOrder(metadata)
    /\ pks' = {}
    /\ batches_left' = 0
    /\ statements' = <<>>
    /\ outcome' = NoOutcome
    /\ calls' = calls + 1
    /\ rows_before' = rows
    /\ committed_before' = committed_rows
    /\ UNCHANGED <<configVars, validation, path, parsed, rows, committed_rows,
                   foreign_keys_enforced, pks_to_delete>>

\* delete() is entered: self.session = session, then Phase 1 starts on
\* _build_deletion_order().  validate() changes nothing that delete() reads,
\* so the calls made after it stand for all calls.
DeleteBegin(dry, com) ==
    /\ phase \in {"Idle", "DryRunReported", "Committed", "Flushed", "RolledBack"}
    /\ validation.state # "none"
    /\ calls < MaxCalls
    /\ phase' = "Collecting"
    /\ dry_run' = dry
    /\ commit' = com
    /\ remaining_tables' = BuildDeletionOrder(metadata)
    /\ pks' = {}
    /\ batches_left' = 0
    /\ statements' = <<>>
    /\ outcome' = NoOutcome
    /\ calls' = calls + 1
    /\ rows_before' = rows
    /\ committed_before' = committed_rows
    /\ UNCHANGED <<configVars, validation, path, parsed, rows, committed_rows,
                   foreign_keys_enforced, pks_to_delete>>

\* a slip: session.rollback() left out of the except branch
RaiseWithoutRollBack(exc, kind, table_name) ==
    /\ phase' = "RolledBack"
    /\ outcome' = [Ended("raised", exc, kind) EXCEPT !.table = table_name]
    /\ UNCHANGED <<rows, statements>>

\* except Exception: session.rollback(); raise
RollBack(exc, kind, table_name) ==
    /\ rows' = committed_rows
    /\ phase' = "RolledBack"
    /\ outcome' = [Ended("raised", exc, kind) EXCEPT !.table = table_name]
    /\ statements' = Append(statements, SessionCall("rollback"))

\* a slip: a collection that raises is passed over and the loop goes on
CollectedOrSkipped(table_name, result) ==
    IF result.raised
    THEN /\ remaining_tables' = Tail(remaining_tables)
         /\ UNCHANGED <<rows, phase, outcome, statements, pks_to_delete>>
    ELSE /\ pks_to_delete' = RecordPks(pks_to_delete, table_name, result.pks)
         /\ statements' = Append(statements,
                                 Statement("select", table_name, result.pks))
         /\ remaining_tables' = Tail(remaining_tables)
         /\ UNCHANGED <<rows, phase, outcome>>

\* the Phase 1 loop body after the query was built and executed
Collected(table_name, result) ==
    IF result.raised
    THEN /\ RollBack(result.exc, result.kind, table_name)
         /\ UNCHANGED <<pks_to_delete, remaining_tables>>
    ELSE /\ pks_to_delete' = RecordPks(pks_to_delete, table_name, result.pks)
         /\ statements' = Append(statements,
                                 Statement("select", table_name, result.pks))
         /\ remaining_tables' = Tail(remaining_tables)
         /\ UNCHANGED <<rows, phase, outcome>>

\* a slip: the exclusion test left out of the Phase 1 loop
IsExcludedNever(table_name, excluded) == FALSE

\* if table.name in self.excluded_tables: continue
IsExcluded(table_name, excluded) == table_name \in excluded

\* one pass of the loop of _collect_pks_to_delete
CollectTable ==
    /\ phase = "Collecting"
    /\ remaining_tables # <<>>
    /\ IF IsExcluded(Head(remaining_tables), excluded_tables)
       THEN /\ remaining_tables' = Tail(remaining_tables)
            /\ UNCHANGED <<rows, phase, outcome, statements, pks_to_delete>>
       ELSE \E fails \in BOOLEAN :
              Collected(Head(remaining_tables),
                ExecutePkQuery(
                    BuildPkCollectionQuery(Head(remaining_tables), metadata,
                        tenant_filters, ParseRelationships(relationships)),
                    Head(remaining_tables), metadata, rows, fails))
    /\ UNCHANGED <<configVars, validation, path, parsed, committed_rows,
                   foreign_keys_enforced, dry_run, commit, pks, batches_left,
                   calls, rows_before,
                   committed_before>>

\* a slip: the dry run's `return` left out, Phase 2 follows every Phase 1
ReportThenDelete ==
    /\ phase = "Collecting"
    /\ remaining_tables = <<>>
    /\ phase' = "Deleting"
    /\ remaining_tables' = BuildDeletionOrder(metadata)
    /\ UNCHANGED <<configVars, validation, path, parsed, rows, committed_rows,
                   foreign_keys_enforced, pks_to_delete, dry_run, commit, pks,
                   batches_left, statements, outcome, calls, rows_before,
                   committed_before>>

\* Phase 1 is over: a dry run reports and returns, a real run starts Phase 2
ReportOrDelete ==
    /\ phase = "Collecting"
    /\ remaining_tables = <<>>
    /\ IF dry_run
       THEN /\ phase' = "DryRunReported"
            /\ outcome' = [Ended("returned", "", "") EXCEPT
                               !.printed = Printed(pks_to_delete)]
            /\ UNCHANGED remaining_tables
       ELSE /\ phase' = "Deleting"
            /\ remaining_tables' = BuildDeletionOrder(metadata)
            /\ UNCHANGED outcome
    /\ UNCHANGED <<configVars, validation, path, parsed, rows, committed_rows,
                   foreign_keys_enforced, pks_to_delete, dry_run, commit, pks,
                   batches_left, statements, calls, rows_before,
                   committed_before>>

\* len(range(0, len(pks), batch_size)) for the table's collected keys; a table
\* that is no key of pks_to_delete, or has no key collected, is passed over
BatchCount(collected, table_name, size) ==
    IF table_name \in DOMAIN collected
    THEN RangeLen(Cardinality(collected[table_name]), BatchSizeOrDefault(size))
    ELSE 0

\* one pass of the loop over deletion_order, up to the batch loop
DeleteTable ==
    /\ phase = "Deleting"
    /\ remaining_tables # <<>>
    /\ batches_left = 0
    /\ IF BatchCount(pks_to_delete, Head(remaining_tables), batch_size) > 0
       THEN /\ pks' = pks_to_delete[Head(remaining_tables)]
            /\ batches_left' = BatchCount(pks_to_delete, Head(remaining_tables),
                                          batch_size)
            /\ UNCHANGED remaining_tables
       ELSE /\ remaining_tables' = Tail(remaining_tables)
            /\ UNCHANGED <<pks, batches_left>>
    /\ UNCHANGED <<configVars, validation, path, parsed, rows, committed_rows,
                   foreign_keys_enforced, pks_to_delete, phase, dry_run, commit,
                   statements, outcome, calls, rows_before,
                   committed_before>>

\* self.session.execute(delete_query) of one batch, removing the rows `gone`
Deleted(table_name, batch, gone, fails) ==
    IF fails
    THEN /\ RollBack("Exception", "SessionFailure", table_name)
         /\ UNCHANGED <<pks, batches_left, remaining_tables>>
    ELSE IF foreign_keys_enforced
            /\ ReferencedByRemaining(metadata, rows, table_name, gone)
    THEN /\ RollBack("IntegrityError", "StatementExecution", table_name)
         /\ UNCHANGED <<pks, batches_left, remaining_tables>>
    ELSE /\ rows' = [rows EXCEPT ![table_name] = @ \ gone]
         /\ statements' = Append(statements, Statement("delete", table_name, batch))
         /\ pks' = pks \ batch
         /\ batches_left' = batches_left - 1
         /\ remaining_tables' = IF batches_left = 1 THEN Tail(remaining_tables)
                                ELSE remaining_tables
         /\ UNCHANGED <<phase, outcome>>

\* one pass of the batch loop: pks[i:i + batch_size] of list(set), whose
\* order is not defined, is any batch_size of the keys not yet sent
DeleteBatch ==
    /\ phase = "Deleting"
    /\ batches_left > 0
    /\ \E batch \in SUBSET pks, fails \in BOOLEAN :
          /\ Cardinality(batch) = IF BatchSizeOrDefault(batch_size) <= Cardinality(pks)
                                  THEN BatchSizeOrDefault(batch_size)
                                  ELSE Cardinality(pks)
          /\ Deleted(Head(remaining_tables), batch,
                     RowsWithKeys(metadata.tables[Head(remaining_tables)],
                                  rows[Head(remaining_tables)], batch), fails)
    /\ UNCHANGED <<configVars, validation, path, parsed, committed_rows,
                   foreign_keys_enforced, pks_to_delete, dry_run, commit, calls,
                   rows_before,
                   committed_before>>

\* a slip: the commit is made whatever the caller asked for
CommittedAlways ==
    /\ committed_rows' = rows
    /\ phase' = "Committed"
    /\ statements' = Append(statements, SessionCall("commit"))
    /\ outcome' = Ended("returned", "", "")
    /\ UNCHANGED rows

\* session.commit() if commit else session.flush(), returning normally
CommittedOrFlushed ==
    /\ IF commit
       THEN /\ committed_rows' = rows
            /\ phase' = "Committed"
            /\ statements' = Append(statements, SessionCall("commit"))
       ELSE /\ phase' = "Flushed"
            /\ statements' = Append(statements, SessionCall("flush"))
            /\ UNCHANGED committed_rows
    /\ outcome' = Ended("returned", "", "")
    /\ UNCHANGED rows

\* Phase 2 is over; a commit or flush that raises is rolled back like any
\* other failure and leaves nothing committed
CommitOrFlush ==
    /\ phase = "Deleting"
    /\ remaining_tables = <<>>
    /\ \E fails \in BOOLEAN :
          IF fails
          THEN RollBack("Exception", "SessionFailure", <<>>)
               /\ UNCHANGED committed_rows
          ELSE CommittedOrFlushed
    /\ UNCHANGED <<configVars, validation, path, parsed,
                   foreign_keys_enforced, pks_to_delete, dry_run, commit,
                   remaining_tables, pks, batches_left, calls, rows_before,
                   committed_before>>

\* configurations of the deletion tests and databases they run on
Config(filters, paths, excluded) ==
    [tenant_filters |-> filters, tenant_join_paths |-> paths,
     excluded_tables |-> excluded]

MultiPathTableNames == {employees, departments, companies}

DeleteConfigs ==
    { Config(<<ByTenantId>>,
             <<Path1(product_orders, order_id, id, orders),
               Path2(products, id, product_id, product_orders, order_id, id, orders)>>,
             {audit_logs} \cup MultiPathTableNames),
      Config(<<ByTenantId>>, <<orders, Path1(orders, user_id, id, users)>>,
             {audit_logs, products, product_orders} \cup MultiPathTableNames),
      Config(<<WrongExpressionCompile>>, <<>>,
             {audit_logs, products, product_orders} \cup MultiPathTableNames),
      Config(<<>>, <<orders, users>>,
             {audit_logs, products, product_orders} \cup MultiPathTableNames),
      Config(<<ByTenantId>>, <<>>, {audit_logs} \cup MultiPathTableNames),
      Config(<<SyntaxError>>, <<>>,
             {audit_logs, products, product_orders} \cup MultiPathTableNames),
      Config(<<ByTenantId>>,
             <<Path1(employees, company_id, id, companies),
               Path1(employees, department_id, id, departments)>>,
             {audit_logs, users, orders, products, product_orders}),
      Config(<<ByTenantId, ByOrgId>>,
             <<Path1(product_orders, order_id, id, orders),
               Path2(products, id, product_id, product_orders, order_id, id, orders)>>,
             {audit_logs} \cup MultiPathTableNames) }

BatchSizes == {<<>>, <<0>>, <<1>>, <<2>>, <<-1>>}

Databases ==
    {data @@ MultiPathData : data \in {SessionData, CrossTenantData, OneTenantData, MixedOrgData}}

\* TenantWiperConfig(..., validate_on_init=False), TenantDeleter(config) and
\* a session on committed rows
Init ==
    /\ metadata = FixtureMetadata
    /\ \E config \in DeleteConfigs :
          /\ tenant_filters = config.tenant_filters
          /\ relationships = config.tenant_join_paths
          /\ excluded_tables = config.excluded_tables
    /\ batch_size \in BatchSizes
    /\ validation = NotValidated
    /\ path = <<>>
    /\ parsed = NotCalled
    /\ rows \in Databases
    /\ committed_rows = rows
    /\ rows_before = rows
    /\ committed_before = rows
    /\ foreign_keys_enforced \in BOOLEAN
    /\ FreshDeleter

Next ==
    \/ Validate
    \/ \E dry, com \in BOOLEAN : DeleteBegin(dry, com)
    \/ CollectTable
    \/ ReportOrDelete
    \/ DeleteTable
    \/ DeleteBatch
    \/ CommitOrFlush

Spec == Init /\ [][Next]_vars

\* what every pass of the Phase 1 loop does to the loop itself: it moves on
\* to the next table, or it leaves through the except branch
CollectPass ==
    /\ phase = "Collecting"
    /\ remaining_tables # <<>>
    /\ \/ remaining_tables' = Tail(remaining_tables) /\ phase' = phase
       \/ remaining_tables' = remaining_tables /\ phase' = "RolledBack"

\* delete() is straight-line code on one thread: once entered, each of its
\* steps is taken, up to the return or the raise.  A CollectTable step is
\* possible whenever the Phase 1 loop has a table left, so the loop's
\* progress is stated on the loop's own variables.
RunsToCompletion ==
    /\ WF_<<phase, remaining_tables>>(CollectPass)
    /\ WF_vars(ReportOrDelete)
    /\ WF_vars(DeleteTable)
    /\ WF_vars(DeleteBatch)
    /\ WF_vars(CommitOrFlush)

SpecLive == Spec /\ RunsToCompletion

\* a user of the target tenant under a primary key no row has used
NewUser == User(4, TargetTenant)

\* another transaction inserts the user and commits while this call is
\* between self._collect_pks_to_delete() and self._execute_deletions(); the
\* session reads committed rows, so it sees the user from then on
ConcurrentInsert ==
    /\ phase = "Collecting"
    /\ remaining_tables = <<>>
    /\ ~dry_run
    /\ NewUser \notin rows[users]
    /\ rows' = [rows EXCEPT ![users] = @ \cup {NewUser}]
    /\ committed_rows' = [committed_rows EXCEPT ![users] = @ \cup {NewUser}]
    /\ UNCHANGED <<configVars, validation, path, parsed, foreign_keys_enforced,
                   pks_to_delete, phase, dry_run, commit, remaining_tables, pks,
                   batches_left, statements, outcome, calls, rows_before,
                   committed_before>>

NextConcurrent ==
    \/ Next
    \/ ConcurrentInsert

\* the deleter next to a transaction that inserts
SpecConcurrent == Init /\ [][NextConcurrent]_vars

(***************************************************************************)
(* Properties                                                              *)
(***************************************************************************)
Validated == validation.state # "none"

\* the delete() call in progress returned from a real (non-dry) run
DeleteSucceeded == phase \in {"Committed", "Flushed"}

\* the rows of a table that the current delete() call removed
Removed(table_name) == rows_before[table_name] \ rows[table_name]

\* the row holds a foreign-key reference to a row the call removed
Orphaned(table_name, row) ==
    \E fk \in metadata.tables[table_name].foreign_keys :
        \E parent \in Removed(fk.ref_table) : row[fk.column] = parent[fk.ref_column]

\* C1: after a successful delete(dry_run=False) on a configuration that
\* passed validate(), no row remaining in any table of the schema, excluded
\* tables included, references a row that this delete() removed.
C1_NoOrphans ==
    (validation.state = "ok" /\ DeleteSucceeded) =>
        \A t \in TableNames(metadata) : \A row \in rows[t] : ~Orphaned(t, row)

\* C4: on a configuration that passed validate() the collection-query builder
\* returns a query for every non-excluded table, so delete() never raises the
\* 'cannot find indirect relationship or applicable tenant filter' error.
C4_BuilderNeverReturnsNone ==
    validation.state = "ok" => outcome.kind # "NoCollectionQuery"

RelationshipDict == ParseRelationships(relationships)

\* every column the filter reads exists on the table, and reading them is
\* all the filter does before it builds its expression
Applicable(tenant_filter, table_name) ==
    /\ tenant_filter.kind # "syntax"
    /\ tenant_filter.cols \subseteq metadata.tables[table_name].columns

DirectlyFilterable(table_name) ==
    \E k \in 1..Len(tenant_filters) : Applicable(tenant_filters[k], table_name)

InClass(table_name, class) ==
    CASE class = "excluded" -> table_name \in excluded_tables
      [] class = "direct" -> DirectlyFilterable(table_name)
      [] class = "relationship" -> table_name \in RelationshipKeys(RelationshipDict)

ClassesOf(table_name) ==
    {class \in {"excluded", "direct", "relationship"} : InClass(table_name, class)}

\* C2 as written: after a successful validate() every table of the schema is
\* in exactly one of the classes excluded / directly filterable / key of the
\* relationship index.
C2_ExactlyOneClass ==
    validation.state = "ok" =>
        \A t \in TableNames(metadata) : Cardinality(ClassesOf(t)) = 1

\* C2 amended: after a successful validate() every table of the schema is in
\* at least one of the three classes, and none is both excluded and a key of
\* the relationship index; a directly filterable table may also be excluded
\* or also be a relationship key.
C2_AtLeastOneClass ==
    validation.state = "ok" =>
        \A t \in TableNames(metadata) :
            /\ ClassesOf(t) # {}
            /\ ~({"excluded", "relationship"} \subseteq ClassesOf(t))

C2_Witness ==
    /\ validation.state = "ok"
    /\ \E t \in TableNames(metadata) : ClassesOf(t) = {"direct", "relationship"}
    /\ \E t \in TableNames(metadata) : ClassesOf(t) = {"excluded", "direct"}
    /\ \E t \in TableNames(metadata) : ClassesOf(t) = {"relationship"}

\* C3: after a successful validate(), the final table of every declared path
\* of a non-excluded source table has at least one applicable tenant filter,
\* whatever the filter list (the empty one included).
C3_FinalTableFilterable ==
    validation.state = "ok" =>
        \A k \in 1..Len(relationships) :
            LET segments == Split(relationships[k], SEP)
            IN  segments[1] \notin excluded_tables =>
                    /\ segments[Len(segments)] \in TableNames(metadata)
                    /\ DirectlyFilterable(segments[Len(segments)])

\* the first stage of validate() found nothing wrong with the declared paths
PathsValid ==
    LET rel == ValidateRelationships(RelationshipDict, excluded_tables, metadata,
                                     tenant_filters, PathReturned(<<>>, <<>>))
    IN  ~rel.raised /\ rel.errors = <<>>

UncoveredSet ==
    {t \in TableNames(metadata) \ excluded_tables :
        ~DirectlyFilterable(t) /\ t \notin RelationshipKeys(RelationshipDict)}

ListsExactly(tables, set) ==
    Range(tables) = set /\ Len(tables) = Cardinality(set)

LastProbe == validation.probes[Len(validation.probes)]

\* the last probe validate() made was of a filter that raises
RaisingProbe(where) ==
    /\ validation.probes # <<>>
    /\ LastProbe.where = where
    /\ tenant_filters[LastProbe.probed].kind \in {"syntax", "apply"}

FilterErrors == {"FilterSyntaxError", "FilterApplicationError"}

\* C5 as written: with all declared paths valid and some non-excluded table
\* having neither an applicable filter nor a relationship entry, validate()
\* fails with the single error that lists exactly the uncovered tables.
C5_ListsEveryUncovered ==
    (Validated /\ PathsValid /\ UncoveredSet # {}) =>
        /\ validation.state = "raised"
        /\ validation.kind = "UncoveredTables"
        /\ ListsExactly(validation.tables, UncoveredSet)

\* C5 amended: in that case validate() fails with one error, which is the
\* uncovered-tables error listing exactly the uncovered tables unless a
\* tenant filter raised when probed during the coverage sweep; then that
\* filter error is the one raised.
C5_ListsEveryUncoveredUnlessFilterRaises ==
    (Validated /\ PathsValid /\ UncoveredSet # {}) =>
        /\ validation.state = "raised"
        /\ validation.exc = "ValueError"
        /\ \/ /\ validation.kind = "UncoveredTables"
              /\ ListsExactly(validation.tables, UncoveredSet)
           \/ /\ validation.kind \in FilterErrors
              /\ RaisingProbe("sweep")

C5_Witness ==
    /\ validation.kind = "UncoveredTables"
    /\ Len(validation.tables) >= 2
    /\ ListsExactly(validation.tables, UncoveredSet)
    /\ relationships # <<>>
    /\ \E t \in TableNames(metadata) \ excluded_tables : t \notin UncoveredSet

\* source tables of declared paths that are also excluded
Conflicts ==
    {Split(relationships[k], SEP)[1] : k \in 1..Len(relationships)}
        \cap excluded_tables

ReportedConflicts ==
    {validation.errors[k].source_table :
        k \in {j \in 1..Len(validation.errors) :
                 validation.errors[j].kind = "ExclusionConflict"}}

\* a declared single-segment path of a non-excluded source names no table
DanglingDirectPath ==
    \E k \in 1..Len(relationships) :
        /\ Find(relationships[k], SEP) = 0
        /\ relationships[k] # <<>>
        /\ relationships[k] \notin TableNames(metadata)
        /\ relationships[k] \notin excluded_tables

\* C6 as written: whenever some table is both excluded and the source of a
\* declared path, validate() fails with the exclusion-conflict error, which
\* reports every conflicting table.  (Stated for the configurations whose
\* single-segment paths all name tables of the schema, where no table lookup
\* fails.)
C6_ReportsEveryConflict ==
    (Validated /\ Conflicts # {} /\ ~DanglingDirectPath) =>
        /\ validation.state = "raised"
        /\ validation.kind = "RelationshipErrors"
        /\ ReportedConflicts = Conflicts

\* C6 amended: in that case validate() never returns normally; it raises the
\* aggregated relationship-path error reporting every conflicting table,
\* unless the validation of another source table's path raised first (a
\* filter error from the probe of a final table, or the KeyError of a
\* single-segment path that names no table), which then propagates instead.
C6_ReportsEveryConflictUnlessPathRaises ==
    (Validated /\ Conflicts # {}) =>
        /\ validation.state = "raised"
        /\ \/ /\ validation.kind = "RelationshipErrors"
              /\ ReportedConflicts = Conflicts
           \/ /\ validation.kind \in FilterErrors
              /\ RaisingProbe("terminal")
           \/ /\ validation.kind = "KeyError"
              /\ tenant_filters # <<>>
              /\ DanglingDirectPath

C6_Witness ==
    /\ validation.kind = "RelationshipErrors"
    /\ Cardinality(Conflicts) >= 2
    /\ ReportedConflicts = Conflicts

\* C7: validate() either returns normally or fails with the aggregated
\* validation error, a ValueError; a path naming a table absent from the
\* schema is never any other kind of failure.
C7_FailsOnlyWithValueError ==
    validation.state = "raised" => validation.exc = "ValueError"

\* C8: whenever a tenant filter that raises on the shadow table is probed,
\* in the coverage sweep or in a path's final-table check, validate() fails
\* at once with the filter syntax error: that probe is the last thing
\* validate() does, and no other outcome replaces the error.
C8_SyntaxErrorSurfaces ==
    \A e \in 1..Len(validation.probes) :
        \A k \in 1..validation.probes[e].probed :
            tenant_filters[k].kind = "syntax" =>
                /\ validation.state = "raised"
                /\ validation.exc = "ValueError"
                /\ validation.kind = "FilterSyntaxError"
                /\ e = Len(validation.probes)
                /\ k = validation.probes[e].probed

C8_Witness ==
    /\ validation.kind = "FilterSyntaxError"
    /\ LastProbe.where = "terminal"
    /\ LastProbe.probed = 2
    /\ \E e \in 1..Len(validation.probes) : validation.probes[e].probed = 1

\* the '__'-delimited segments of the parser's input
Segments == Split(path, SEP)

ConditionIndexes == {k \in 1..Len(Segments) : k % 2 = 0}

CountEq(s) == Cardinality({i \in 1..Len(s) : s[i] = "="})

\* table (__ from_key=to_key __ table)*
ValidPathString ==
    /\ Len(Segments) % 2 = 1
    /\ \A k \in ConditionIndexes : CountEq(Segments[k]) = 1

LeftOfEq(s) == SubSeq(s, 1, (CHOOSE i \in 1..Len(s) : s[i] = "=") - 1)

RightOfEq(s) == SubSeq(s, (CHOOSE i \in 1..Len(s) : s[i] = "=") + 1, Len(s))

\* C9: for a valid path string with N table segments the parser returns N-1
\* steps, start_table the first segment, final_table the last; step i joins
\* the i-th table to the (i+1)-th on the two sides of the i-th condition.
C9_ParseShape ==
    (parsed # NotCalled /\ ValidPathString) =>
        /\ parsed.ok
        /\ Len(parsed.steps) = (Len(Segments) - 1) \div 2
        /\ parsed.start_table = Segments[1]
        /\ parsed.final_table = Segments[Len(Segments)]
        /\ Len(Segments) = 1 =>
              parsed.steps = <<>> /\ parsed.start_table = parsed.final_table
        /\ \A i \in 1..Len(parsed.steps) :
              /\ parsed.steps[i].from_table = Segments[2 * i - 1]
              /\ parsed.steps[i].to_table = Segments[2 * i + 1]
              /\ parsed.steps[i].from_key = LeftOfEq(Segments[2 * i])
              /\ parsed.steps[i].to_key = RightOfEq(Segments[2 * i])

C9_Witness ==
    /\ parsed.ok
    /\ Len(parsed.steps) = 2
    /\ parsed.start_table # parsed.steps[2].from_table
    /\ parsed.steps[1].from_key # parsed.steps[1].to_key

\* C10: the parser raises on every string with an even number of segments
\* and on every string one of whose condition segments does not hold exactly
\* one '='; a raise returns nothing.
C10_ParseRejects ==
    (parsed # NotCalled
        /\ \/ Len(Segments) % 2 = 0
           \/ \E k \in ConditionIndexes : CountEq(Segments[k]) # 1) =>
        /\ ~parsed.ok
        /\ parsed.error \in {"MalformedPath", "InvalidJoinCondition"}
        /\ DOMAIN parsed = {"ok", "error"}

C10_Witness ==
    /\ parsed.error = "InvalidJoinCondition"
    /\ Len(Segments) = 5
    /\ CountEq(Segments[2]) = 1
    /\ CountEq(Segments[4]) = 2

\* C11: parsing the empty path string is a parse error: the parser raises and
\* returns no join path (in particular none whose start table is the empty
\* name).
C11_EmptyPathIsParseError ==
    (parsed # NotCalled /\ path = <<>>) => ~parsed.ok

\* the statements of a kind that the current delete() call has executed
StatementsOf(op) == {k \in 1..Len(statements) : statements[k].op = op}

\* C12: during and after every delete() call, dry or not, succeeding or
\* failing, no statement (select or delete) was executed on an excluded
\* table, no query was built for one (none failed to build or to run), no
\* excluded table is a key of pks_to_delete, and the rows of every excluded
\* table are those the table had when the call began.
C12_ExcludedUntouched ==
    \A t \in excluded_tables :
        /\ \A k \in 1..Len(statements) : statements[k].table # t
        /\ outcome.table # t
        /\ t \notin DOMAIN pks_to_delete
        /\ rows[t] = rows_before[t]

\* a committed run that deleted companies while users, which the tenant
\* filter applies to and which holds rows of the tenant, was excluded
C12_Witness ==
    /\ phase = "Committed"
    /\ users \in excluded_tables
    /\ \E row \in rows[users] : MatchesAny(row, tenant_filters)
    /\ \E k \in StatementsOf("delete") : statements[k].table = companies

\* C13: a dry run in which no collection query has raised, up to and after
\* its return, has executed select statements only (no delete, commit, flush
\* or rollback), and both the rows the session sees and the committed rows
\* are those of the call's beginning.
C13_DryRunChangesNothing ==
    (dry_run /\ phase # "RolledBack") =>
        /\ \A k \in 1..Len(statements) : statements[k].op = "select"
        /\ rows = rows_before
        /\ committed_rows = committed_before

\* a dry run that found keys to delete in several tables
C13_Witness ==
    /\ phase = "DryRunReported"
    /\ \E t \in DOMAIN pks_to_delete : pks_to_delete[t] # {}
    /\ Cardinality({k \in StatementsOf("select") : statements[k].keys # {}}) > 1

\* the number of keys Phase 1 of a real run collects for a table on the
\* session's rows
PhaseOneCount(table_name) ==
    Cardinality(ExecutePkQuery(
        BuildPkCollectionQuery(table_name, metadata, tenant_filters,
                               RelationshipDict),
        table_name, metadata, rows, FALSE).pks)

PhaseOneCounts ==
    [t \in TableNames(metadata) \ excluded_tables |-> PhaseOneCount(t)]

\* C14: a dry run returns to its caller a report that maps every table not
\* excluded to the number of primary keys Phase 1 of a real run collects for
\* it on the same rows.
C14_DryRunReturnsReport ==
    phase = "DryRunReported" => outcome.value = <<PhaseOneCounts>>

\* table a holds a foreign key that references table b
HasForeignKeyTo(a, b) ==
    \E fk \in metadata.tables[a].foreign_keys : fk.ref_table = b

\* where a table stands in metadata.sorted_tables
SortedIndex(table_name) ==
    CHOOSE k \in 1..Len(metadata.sorted_tables) :
        metadata.sorted_tables[k] = table_name

\* C15: the delete statements of a call come in the reverse of
\* metadata.sorted_tables, and whenever table A holds a foreign key to table
\* B, every delete statement on A precedes every delete statement on B.
C15_ChildrenDeletedFirst ==
    \A i, j \in StatementsOf("delete") :
        /\ i < j => SortedIndex(statements[i].table) >= SortedIndex(statements[j].table)
        /\ HasForeignKeyTo(statements[i].table, statements[j].table) => i < j

\* a finished run that deleted from a child table and from both its parents
C15_Witness ==
    /\ DeleteSucceeded
    /\ \E i, j, k \in StatementsOf("delete") :
          /\ statements[i].table = product_orders
          /\ statements[j].table = orders
          /\ statements[k].table = users
          /\ HasForeignKeyTo(statements[i].table, statements[j].table)
          /\ HasForeignKeyTo(statements[j].table, statements[k].table)

\* the delete statements the current call executed on a table
DeletesOn(table_name) ==
    {k \in StatementsOf("delete") : statements[k].table = table_name}

\* C16: after a finished real run with a positive batch size b, for every
\* table with n > 0 collected keys the call executed ceil(n/b) delete
\* statements on it, each with at least one and at most b keys, pairwise
\* disjoint, their union the collected key set; the rows with those keys are
\* gone and no other row of the table is.
C16_BatchesPartitionKeys ==
    (DeleteSucceeded /\ BatchSizeOrDefault(batch_size) > 0) =>
        \A t \in DOMAIN pks_to_delete :
            pks_to_delete[t] # {} =>
                /\ Cardinality(DeletesOn(t)) * BatchSizeOrDefault(batch_size)
                      >= Cardinality(pks_to_delete[t])
                /\ (Cardinality(DeletesOn(t)) - 1) * BatchSizeOrDefault(batch_size)
                      < Cardinality(pks_to_delete[t])
                /\ \A k \in DeletesOn(t) :
                      /\ statements[k].keys # {}
                      /\ Cardinality(statements[k].keys)
                            <= BatchSizeOrDefault(batch_size)
                /\ \A k, l \in DeletesOn(t) :
                      k # l => statements[k].keys \cap statements[l].keys = {}
                /\ UNION {statements[k].keys : k \in DeletesOn(t)} = pks_to_delete[t]
                /\ Removed(t) = RowsWithKeys(metadata.tables[t], rows_before[t],
                                             pks_to_delete[t])
                /\ rows[t] = rows_before[t] \ Removed(t)

\* three keys sent in batches of two: a full batch and a shorter last one
C16_Witness ==
    /\ DeleteSucceeded
    /\ batch_size = <<2>>
    /\ \E t \in DOMAIN pks_to_delete :
          /\ Cardinality(pks_to_delete[t]) = 3
          /\ Cardinality(DeletesOn(t)) = 2
          /\ Cardinality(Removed(t)) = 3

\* the call ended in the except branch: rollback was the last thing done on
\* the session and the exception went to the caller
RolledBackAndRaised ==
    /\ statements # <<>>
    /\ statements[Len(statements)] = SessionCall("rollback")
    /\ Cardinality(StatementsOf("rollback")) = 1
    /\ outcome.state = "raised"
    /\ outcome.exc # ""

\* C17 as written: a delete() call that raised has rolled the session back
\* and re-raised, and the rows of every table are those of the call's
\* beginning.
C17_RollbackRestoresPreCall ==
    phase = "RolledBack" => RolledBackAndRaised /\ rows = rows_before

\* C17 amended: a delete() call that raised has rolled the session back and
\* re-raised, and the rows of every table are the committed rows, which the
\* call did not change; they are the rows of the call's beginning when the
\* session had no uncommitted change at that time.
C17_RollbackRestoresCommitted ==
    phase = "RolledBack" =>
        /\ RolledBackAndRaised
        /\ rows = committed_rows
        /\ committed_rows = committed_before
        /\ rows_before = committed_before => rows = rows_before

\* a call that failed after delete statements had run, all rows back
C17_Witness ==
    /\ phase = "RolledBack"
    /\ StatementsOf("delete") # {}
    /\ \E k \in StatementsOf("delete") :
          RowsWithKeys(metadata.tables[statements[k].table],
                       rows[statements[k].table], statements[k].keys) # {}
    /\ rows = rows_before

\* C18: a call commits at most once, only with commit=True and
\* dry_run=False, as the last thing it does on the session and so after all
\* its delete statements, and only when nothing raised; a finished run with
\* commit=False has flushed and not committed; the committed rows change in
\* no other call.
C18_CommitOnlyWhenAsked ==
    /\ Cardinality(StatementsOf("commit")) <= 1
    /\ \A k \in StatementsOf("commit") :
          /\ commit /\ ~dry_run
          /\ phase = "Committed"
          /\ k = Len(statements)
    /\ phase = "Committed" =>
          /\ StatementsOf("commit") # {}
          /\ committed_rows = rows
          /\ StatementsOf("flush") = {}
    /\ phase = "Flushed" =>
          /\ ~commit /\ ~dry_run
          /\ StatementsOf("commit") = {}
          /\ statements[Len(statements)] = SessionCall("flush")
    /\ phase # "Committed" => committed_rows = committed_before

\* a committing run whose delete statements changed the committed rows
C18_Witness ==
    /\ phase = "Committed"
    /\ StatementsOf("delete") # {}
    /\ committed_rows # committed_before

\* between two calls the deleter is idle, whatever the last call ended in
IdlePhases == {"Idle", "DryRunReported", "Committed", "Flushed", "RolledBack"}

Enters == phase \in IdlePhases /\ phase' = "Collecting"

\* a delete statement is executed in Phase 2 only
DeletesOnlyWhenDeleting ==
    (Len(statements') > Len(statements)
        /\ statements'[Len(statements')].op = "delete") => phase = "Deleting"

\* C19 as written: a call moves only along Idle -> Collecting ->
\* (DryRunReported | Deleting) -> Committed | RolledBack, deletes nothing
\* before it has collected, ends a dry run in DryRunReported and ends every
\* real run in Committed or in RolledBack.
C19_ClaimedStateMachine ==
    /\ [][phase' # phase =>
            \/ Enters
            \/ <<phase, phase'>> \in {<<"Collecting", "DryRunReported">>,
                                      <<"Collecting", "Deleting">>,
                                      <<"Deleting", "Committed">>,
                                      <<"Deleting", "RolledBack">>}]_vars
    /\ [][DeletesOnlyWhenDeleting]_vars
    /\ (phase = "Collecting" /\ dry_run) ~> (phase = "DryRunReported")
    /\ (phase = "Collecting" /\ ~dry_run) ~> (phase \in {"Committed", "RolledBack"})

\* C19 amended: a call moves only along Idle -> Collecting ->
\* (DryRunReported | Deleting | RolledBack) and Deleting -> Committed |
\* Flushed | RolledBack, deletes nothing before it has collected, ends a
\* dry run in DryRunReported or RolledBack and ends every real run in
\* Committed (commit=True), Flushed (commit=False) or RolledBack.
C19_StateMachine ==
    /\ [][phase' # phase =>
            \/ Enters
            \/ <<phase, phase'>> \in {<<"Collecting", "DryRunReported">>,
                                      <<"Collecting", "Deleting">>,
                                      <<"Collecting", "RolledBack">>,
                                      <<"Deleting", "Committed">>,
                                      <<"Deleting", "Flushed">>,
                                      <<"Deleting", "RolledBack">>}]_vars
    /\ [][DeletesOnlyWhenDeleting]_vars
    /\ (phase = "Collecting" /\ dry_run) ~>
          (phase \in {"DryRunReported", "RolledBack"})
    /\ (phase = "Collecting" /\ ~dry_run /\ commit) ~>
          (phase \in {"Committed", "RolledBack"})
    /\ (phase = "Collecting" /\ ~dry_run /\ ~commit) ~>
          (phase \in {"Flushed", "RolledBack"})

\* a real run without commit that deleted rows and ended flushed
C19_Witness ==
    /\ phase = "Flushed"
    /\ StatementsOf("delete") # {}
    /\ rows # committed_rows

\* a tenant filter that can be applied to the table: it names only columns
\* the table has and does not raise
FilterApplies(table_name, tenant_filter) ==
    ~InvokeFilter(metadata.tables[table_name], tenant_filter).raised

\* the paths declared for a table in tenant_join_paths
DeclaredPaths(table_name) ==
    IF table_name \in RelationshipKeys(ParseRelationships(relationships))
    THEN PathStrings(ParseRelationships(relationships), table_name)
    ELSE <<>>

\* the row joins through the steps of the path to a row of the path's final
\* table that matches a tenant filter applicable to that table, in the
\* tables as they were when Phase 1 ran
ReachedVia(row, path_string) ==
    /\ ParseJoinPath(path_string).ok
    /\ \E k \in 1..Len(tenant_filters) :
          /\ FilterApplies(ParseJoinPath(path_string).final_table, tenant_filters[k])
          /\ Reaches(row, ParseJoinPath(path_string).steps, rows_before,
                     <<tenant_filters[k]>>)

\* the paths of the table through which the row is reached
PathsReaching(table_name, row) ==
    {j \in 1..Len(DeclaredPaths(table_name)) :
        ReachedVia(row, DeclaredPaths(table_name)[j])}

\* a Phase 1 select on a table without an applicable direct filter and with
\* several declared paths
IsMultiPathSelect(k) ==
    /\ statements[k].op = "select"
    /\ \A j \in 1..Len(tenant_filters) :
          ~FilterApplies(statements[k].table, tenant_filters[j])
    /\ Len(DeclaredPaths(statements[k].table)) >= 2

DirectFilters(table_name) ==
    {j \in 1..Len(tenant_filters) : FilterApplies(table_name, tenant_filters[j])}

\* the applicable filters the row satisfies
FiltersMatching(table_name, row) ==
    {j \in DirectFilters(table_name) : Matches(row, tenant_filters[j])}

\* a Phase 1 select on a table that a tenant filter applies to
IsDirectSelect(k) ==
    /\ statements[k].op = "select"
    /\ DirectFilters(statements[k].table) # {}

\* C21: for a table to which at least one tenant filter applies, the primary
\* keys Phase 1 selects are exactly the keys of the table's rows that satisfy
\* at least one applicable filter: none of those rows is missed and no row
\* that satisfies none is selected.
C21_DirectFiltersAreOred ==
    \A k \in 1..Len(statements) :
        IsDirectSelect(k) =>
            statements[k].keys =
                {PrimaryKey(metadata.tables[statements[k].table], row) :
                    row \in {r \in rows_before[statements[k].table] :
                               FiltersMatching(statements[k].table, r) # {}}}

\* Phase 1 selected from a table with two applicable filters where one row
\* satisfies only one of them and is selected and another satisfies none
C21_Witness ==
    \E k \in 1..Len(statements) :
        /\ IsDirectSelect(k)
        /\ Cardinality(DirectFilters(statements[k].table)) >= 2
        /\ \E one, none \in rows_before[statements[k].table] :
              /\ Cardinality(FiltersMatching(statements[k].table, one)) = 1
              /\ FiltersMatching(statements[k].table, none) = {}
              /\ PrimaryKey(metadata.tables[statements[k].table], one) \in statements[k].keys
              /\ PrimaryKey(metadata.tables[statements[k].table], none) \notin statements[k].keys

\* the keys the current call's Phase 1 selected from the table
SelectedKeys(table_name) ==
    UNION {statements[k].keys :
             k \in {j \in StatementsOf("select") : statements[j].table = table_name}}

\* the current call is past Phase 1 of a real run
PastPhaseOne == ~dry_run /\ phase \in {"Deleting", "Committed", "Flushed"}

\* C24: a row of the tenant that another transaction inserts under an unused
\* primary key after Phase 1 of a delete() call and before its Phase 2 is
\* not deleted by that call, and the rows the call's Phase 2 deletes all have
\* a primary key the call's Phase 1 collected.
C24_LateInsertSurvives ==
    PastPhaseOne =>
        /\ (NewUser \notin rows_before[users] /\ NewUser \in committed_rows[users])
               => NewUser \in rows[users]
        /\ \A t \in TableNames(metadata) : \A row \in Removed(t) :
               PrimaryKey(metadata.tables[t], row) \in SelectedKeys(t)

\* the insert came between the phases of a call that then deleted the
\* tenant's other users and returned
C24_Witness ==
    /\ phase \in {"Committed", "Flushed"}
    /\ NewUser \notin rows_before[users]
    /\ NewUser \in rows[users]
    /\ Removed(users) # {}
    /\ \A row \in Removed(users) : Matches(row, ByTenantId)

\* the current call has just been entered: nothing visited, nothing executed
CallJustBegan ==
    /\ phase = "Collecting"
    /\ remaining_tables = BuildDeletionOrder(metadata)
    /\ statements = <<>>

\* the keys of every delete statement of the current call were selected by
\* the current call
DeletesOnlyOwnKeys ==
    \A k \in StatementsOf("delete") :
        statements[k].keys \subseteq SelectedKeys(statements[k].table)

\* C22: whatever calls were made before on the same TenantDeleter, a
\* delete() call starts with an empty pks_to_delete, and the keys its Phase 2
\* deletes are keys its own Phase 1 collected, never a key that only an
\* earlier call collected.
C22_FreshCollectionPerCall ==
    /\ CallJustBegan => pks_to_delete = EmptyDict
    /\ DeletesOnlyOwnKeys

\* the configuration of test_tenant_deletion_with_real_data
EndToEndConfig ==
    /\ tenant_filters = <<ByTenantId>>
    /\ relationships =
          <<Path1(product_orders, order_id, id, orders),
            Path2(products, id, product_id, product_orders, order_id, id, orders)>>
    /\ excluded_tables = {audit_logs} \cup MultiPathTableNames
    /\ batch_size = <<>>

\* delete(dry_run=False, commit=True) returned, on that configuration, from
\* a call that began on the rows of the fixture
EndToEndDone ==
    /\ EndToEndConfig
    /\ rows_before = SessionData @@ MultiPathData
    /\ ~dry_run
    /\ phase = "Committed"

\* C23 as written: in the end-to-end fixture, after delete(dry_run=False,
\* commit=True) exactly one product order remains, the one joined to the
\* other tenant's order, and all three products are deleted.
C23_AllProductsDeleted ==
    EndToEndDone =>
        /\ rows[product_orders] = {ProductOrder(3, 3)}
        /\ rows[products] = {}

\* C23 amended: in the end-to-end fixture, after delete(dry_run=False,
\* commit=True) exactly one product order remains, the one joined to the
\* other tenant's order, products 1 and 2 are deleted and product 3, which
\* is joined to the other tenant's order only, remains.
C23_TenantProductsDeleted ==
    EndToEndDone =>
        /\ rows[product_orders] = {ProductOrder(3, 3)}
        /\ rows[products] = {Product(3)}
        /\ committed_rows = rows

\* the end-to-end call returned and its deletes are in the statements
C23_Witness ==
    /\ EndToEndDone
    /\ \E k \in StatementsOf("delete") : statements[k].table = products

\* what is wrong with one side of a step: a table the schema lacks, or a key
\* column that an existing table lacks
SideDefects(table_name, key) ==
    IF table_name \notin TableNames(metadata)
    THEN {PathError("UnknownTable", table_name, <<>>)}
    ELSE IF key \notin metadata.tables[table_name].columns
    THEN {PathError("UnknownColumn", key, table_name)}
    ELSE {}

\* every nonexistent table and nonexistent key column of the steps of a path
PathDefects(relationship_path) ==
    UNION {SideDefects(step.from_table, step.from_key)
             \cup SideDefects(step.to_table, step.to_key) :
           step \in Range(ParseJoinPath(relationship_path).steps)}

\* the step errors the aggregated error reports for the path
ReportedDefects(relationship_path) ==
    {PathError(e.kind, e.name, e.table) :
        e \in {x \in Range(validation.errors) :
                 /\ x.path = relationship_path
                 /\ x.kind \in {"UnknownTable", "UnknownColumn"}}}

\* C25: when validate() raises the aggregated relationship-path error, the
\* error names, for every syntactically valid path of a non-excluded source
\* table, every nonexistent table and every nonexistent key column of every
\* step of the path, whatever was found in the steps before.
C25_EveryStepDefectReported ==
    validation.kind = "RelationshipErrors" =>
        \A k \in 1..Len(relationships) :
            (/\ ParseJoinPath(relationships[k]).ok
             /\ ParseJoinPath(relationships[k]).start_table \notin excluded_tables)
                => ReportedDefects(relationships[k]) = PathDefects(relationships[k])

\* the rows of the table that match no applicable filter of the table but
\* join through one of its declared paths to a row that matches
ReachedOnlyViaPaths(table_name) ==
    {row \in rows_before[table_name] :
        /\ FiltersMatching(table_name, row) = {}
        /\ PathsReaching(table_name, row) # {}}

\* a Phase 1 select on a table that has both an applicable tenant filter and
\* declared join paths
IsDirectSelectWithPaths(k) ==
    /\ IsDirectSelect(k)
    /\ DeclaredPaths(statements[k].table) # <<>>

\* C26: when a tenant filter applies directly to a table, the join paths
\* declared for the table, a single-segment path included, contribute no
\* primary key: every selected key belongs to a row that matches a direct
\* filter, and no row that is only reachable through a declared path is
\* selected.
C26_PathsIgnoredWhenDirect ==
    \A k \in 1..Len(statements) :
        IsDirectSelectWithPaths(k) =>
            /\ \A row \in ReachedOnlyViaPaths(statements[k].table) :
                  PrimaryKey(metadata.tables[statements[k].table], row)
                      \notin statements[k].keys
            /\ \A key \in statements[k].keys :
                  \E row \in rows_before[statements[k].table] :
                      /\ PrimaryKey(metadata.tables[statements[k].table], row) = key
                      /\ FiltersMatching(statements[k].table, row) # {}

\* Phase 1 selected from such a table while one of its rows, of another
\* tenant, joins through a declared path to a row of the target tenant
C26_Witness ==
    \E k \in 1..Len(statements) :
        /\ IsDirectSelectWithPaths(k)
        /\ Len(DeclaredPaths(statements[k].table)) >= 2
        /\ ReachedOnlyViaPaths(statements[k].table) # {}
        /\ statements[k].keys # {}

\* the tables Phase 1 has to collect from
CollectedTables == TableNames(metadata) \ excluded_tables

\* the tables the current call selected from before its statement number k
SelectedBefore(k) ==
    {statements[j].table : j \in {i \in StatementsOf("select") : i < k}}

\* C27: within one delete() call, every delete statement comes after the
\* successful collection select of every non-excluded table and after every
\* select of the call; so a call in which a collection failed issues no
\* delete statement at all.
C27_CollectBeforeAnyDelete ==
    \A d \in StatementsOf("delete") :
        /\ CollectedTables \subseteq SelectedBefore(d)
        /\ \A s \in StatementsOf("select") : s < d

\* a delete was executed after the selects of several tables
C27_Witness ==
    /\ StatementsOf("delete") # {}
    /\ Cardinality(CollectedTables) >= 2
    /\ Cardinality(StatementsOf("select")) = Cardinality(CollectedTables)

\* the first delete() call on the deleter failed in Phase 1: the execution
\* of the collection query of the table raised
FirstCallFailedCollecting(table_name) ==
    /\ calls = 1
    /\ phase = "RolledBack"
    /\ outcome.kind \in {"QueryExecution", "SessionFailure"}
    /\ outcome.table = table_name
    /\ table_name \notin SelectedBefore(Len(statements) + 1)

\* C28: when delete() on a fresh TenantDeleter fails in Phase 1 because the
\* execution of a collection query raises, pks_to_delete is empty after the
\* call, whichever table's query it was.
C28_NothingRecordedOnFailure ==
    \A t \in CollectedTables :
        FirstCallFailedCollecting(t) => pks_to_delete = EmptyDict

\* the lists that hold the same filters in another order
Reorderings(filters) ==
    {[k \in 1..Len(filters) |-> filters[order[k]]] :
        order \in Permutations(1..Len(filters))}

\* how validate() ends: normally, or the category of the error it raises
Category(result) == <<result.state, result.exc, result.kind>>

\* C29: the outcome of validate(), success or the category of the error
\* raised, is the same for every order of the same tenant filters over the
\* same schema, paths and exclusions, a filter that raises when probed
\* included.
C29_FilterOrderIrrelevant ==
    Validated =>
        \A filters \in Reorderings(tenant_filters) :
            Category(ValidateConfig(metadata, filters, relationships,
                                    excluded_tables)) = Category(validation)

\* the keys the current call's delete statements name for the table
DeletedKeys(table_name) ==
    UNION {statements[k].keys :
             k \in {j \in StatementsOf("delete") : statements[j].table = table_name}}

\* C30: for every batch_size the configuration accepts (None, 0, negative
\* and positive integers), a delete(dry_run=False) call that returns normally
\* has issued delete statements that together name every primary key its
\* Phase 1 collected, for every non-excluded table.
C30_EveryCollectedKeyDeleted ==
    DeleteSucceeded =>
        \A t \in CollectedTables : SelectedKeys(t) \subseteq DeletedKeys(t)

====
